---- MODULE Spec2Model ----
(***************************************************************************)
(* Model of the MyKind controller (controllers/mykind_controller.go).      *)
(*                                                                         *)
(* The remote object store holds MyKind parents and Deployment children.   *)
(* The Ownership Index is the field index registered in SetupWithManager:  *)
(* it is filled from watch observations and may lag behind the store.      *)
(* One Reconcile pass is a sequence of blocking store operations; every    *)
(* store operation is one step, so passes of different keys and external   *)
(* writers interleave between the operations of a pass.                    *)
(***************************************************************************)
EXTENDS Integers, Sequences, FiniteSets, TLC

\* ------------------------------------------------------------------ bounds
MaxReplicas == 2      \* replica counts range over 0..MaxReplicas
MaxReady    == 1      \* observed ready counts range over 0..MaxReady
MaxEnv      == 2      \* external disturbances (edits, drift, failures) per run
MaxPairEnv  == 1      \* the same, in runs with two parents

\* ------------------------------------------------------------- vocabulary
Nil == 0 - 1          \* an unset *int32 (MyKindSpec.Replicas is optional)

Namespaces == {"ns1", "ns2"}
DeplNames  == {"a", "b"}
P1 == [ns |-> "ns1", name |-> "p1"]
P2 == [ns |-> "ns1", name |-> "p2"]
Keys       == {P1, P2}
ChildNames == DeplNames \cup {"c"}   \* "c": a third name, for a second rename
DeplKeys   == [ns : Namespaces, name : ChildNames]

GroupVersion == "mygroup.k8s.io/v1beta1"
NoOwner      == [apiVersion |-> "", kind |-> "", name |-> ""]

\* MyKindSpec, +kubebuilder:validation:Minimum=0 on Replicas, name required
ValidSpecs == [deploymentName : DeplNames, replicas : {Nil} \cup 0..MaxReplicas]

VARIABLES
    mykinds,       \* store: parent key -> [deploymentName, replicas, readyReplicas]
    deployments,   \* store: child key  -> [replicas, readyReplicas, owner, selector]
    index,         \* Ownership Index: child key -> set of indexed owner names
    pc,            \* per key: position of the pass in flight ("idle" = none)
    loc,           \* per key: locals of the pass (myKind, deployments, deployment)
    trace,         \* per key: store operations issued by the current/last pass
    events,        \* per key: events recorded by the current/last pass
    result,        \* per key: what the last finished pass returned
    budget,        \* external disturbances still allowed
    prev,          \* per key: store as the previous pass left it, while untouched
    stage          \* position in the scenario of the run (scenario runs only)

store == <<mykinds, deployments, index>>
vars  == <<mykinds, deployments, index, pc, loc, trace, events, result, budget,
           prev, stage>>

\* ---------------------------------------------------------------- helpers
Put(f, k, v) == [x \in DOMAIN f \cup {k} |-> IF x = k THEN v ELSE f[x]]
Drop(f, k)   == [x \in DOMAIN f \ {k} |-> f[x]]

NoMyKind     == [deploymentName |-> "", replicas |-> Nil, readyReplicas |-> 0]
NoDeployment == [replicas |-> Nil, readyReplicas |-> 0, owner |-> NoOwner,
                 selector |-> ""]
NoLocals     == [myKind |-> NoMyKind, myKindStale |-> FALSE,
                 items |-> {}, todo |-> {},
                 deployment |-> NoDeployment, deploymentStale |-> FALSE]

Empty == [x \in {} |-> 0]

\* No record of a previous pass: the store was written to since it ended.
NoPrev == [valid |-> FALSE, mykinds |-> Empty, deployments |-> Empty,
           index |-> Empty, settled |-> FALSE, runs |-> 0]

Op(op, res, obj) == [op |-> op, res |-> res, obj |-> obj]
Ev(reason, obj)  == [reason |-> reason, obj |-> obj]

\* client.ObjectKey{Namespace: myKind.Namespace, Name: myKind.Spec.DeploymentName}
DeplKeyOf(k, myKind) == [ns |-> k.ns, name |-> myKind.deploymentName]

\* expectedReplicas := int32(1); if myKind.Spec.Replicas != nil { ... }
expectedReplicas_one(myKind) == 1

expectedReplicas(myKind) ==
    IF myKind.replicas # Nil THEN myKind.replicas ELSE 1

\* metav1.NewControllerRef(&myKind, GroupVersion.WithKind("MyKind"))
NewControllerRef_v1(k) ==
    [apiVersion |-> "mygroup.k8s.io/v1", kind |-> "MyKind", name |-> k.name]

NewControllerRef(k) ==
    [apiVersion |-> GroupVersion, kind |-> "MyKind", name |-> k.name]

buildDeployment_one(k, myKind) ==
    [name      |-> myKind.deploymentName,
     namespace |-> k.ns,
     owner     |-> NewControllerRef(k),
     replicas  |-> 1,
     selector  |-> myKind.deploymentName]

buildDeployment_parentselector(k, myKind) ==
    [name      |-> myKind.deploymentName,
     namespace |-> k.ns,
     owner     |-> NewControllerRef(k),
     replicas  |-> myKind.replicas,
     selector  |-> k.name]

buildDeployment(k, myKind) ==
    [name      |-> myKind.deploymentName,
     namespace |-> k.ns,
     owner     |-> NewControllerRef(k),
     replicas  |-> myKind.replicas,
     selector  |-> myKind.deploymentName]

\* What the store persists for a created Deployment: an unset replica count
\* is defaulted to 1 by the store, no replica is ready yet.
Stored(d) ==
    [replicas      |-> IF d.replicas = Nil THEN 1 ELSE d.replicas,
     readyReplicas |-> 0,
     owner         |-> d.owner,
     selector      |-> d.selector]

\* The index function registered for deploymentOwnerKey.
indexFunc_anykind(depl) ==
    IF depl.owner = NoOwner THEN {} ELSE {depl.owner.name}

indexFunc(depl) ==
    IF depl.owner = NoOwner THEN {}
    ELSE IF depl.owner.apiVersion # GroupVersion \/ depl.owner.kind # "MyKind"
         THEN {}
         ELSE {depl.owner.name}

\* What the index would hold for child c if it had observed the store.
Observed(c) == IF c \in DOMAIN deployments THEN indexFunc(deployments[c]) ELSE {}

\* r.List(..., client.InNamespace(myKind.Namespace),
\*             client.MatchingField(deploymentOwnerKey, myKind.Name))
List(k) == {c \in DeplKeys : c.ns = k.ns /\ k.name \in index[c]}

\* A write to parent k invalidates the copy a pass in flight holds of it
\* (optimistic concurrency: its resourceVersion is no longer current).
StaleMyKind(l, k) ==
    [l EXCEPT ![k].myKindStale = (pc[k] # "idle")]

\* A write to child c invalidates every copy of it read by a pass in flight.
StaleDeployment(l, c) ==
    [j \in Keys |->
        IF pc[j] \in {"update", "status"} /\ DeplKeyOf(j, l[j].myKind) = c
        THEN [l[j] EXCEPT !.deploymentStale = TRUE]
        ELSE l[j]]


\* ------------------------------------------------------------------- Init
\* The controller starts against a store that holds parent p1 with no status
\* yet and any valid replica count; no child exists and nothing has been
\* observed. Child names are interchangeable: p1 starts out wanting "a" (the
\* tests' "deployment-name") and is renamed from there.
Init ==
    /\ \E s \in ValidSpecs :
          /\ s.deploymentName = "a"
          /\ mykinds = (P1 :> [deploymentName |-> s.deploymentName,
                               replicas       |-> s.replicas,
                               readyReplicas  |-> 0])
    /\ deployments = Empty
    /\ index   = [c \in DeplKeys |-> {}]
    /\ pc      = [k \in Keys |-> "idle"]
    /\ loc     = [k \in Keys |-> NoLocals]
    /\ trace   = [k \in Keys |-> << >>]
    /\ events  = [k \in Keys |-> << >>]
    /\ result  = [k \in Keys |-> "none"]
    /\ budget  = MaxEnv
    /\ prev    = [k \in Keys |-> NoPrev]
    /\ stage   = 0

\* ------------------------------------------------------- one Reconcile pass
\* return ctrl.Result{}, <res>: the pass is over, its locals are dead.
Return(k, res, ops, evs, l) ==
    /\ pc'     = [pc EXCEPT ![k] = "idle"]
    /\ result' = [result EXCEPT ![k] = res]
    /\ trace'  = [trace EXCEPT ![k] = trace[k] \o ops]
    /\ events' = [events EXCEPT ![k] = events[k] \o evs]
    /\ loc'    = [l EXCEPT ![k] = NoLocals]

\* The pass goes on to its next store operation.
Goto(k, next, ops, evs, l) ==
    /\ pc'     = [pc EXCEPT ![k] = next]
    /\ trace'  = [trace EXCEPT ![k] = trace[k] \o ops]
    /\ events' = [events EXCEPT ![k] = events[k] \o evs]
    /\ loc'    = l
    /\ UNCHANGED result

\* A store operation fails for a reason of its own (network, backing store).
Transient == budget > 0 /\ budget' = budget - 1

\* client.IgnoreNotFound(err): what Reconcile returns for a failed parent Get.
IgnoreNotFound_strict(err) == "err"

IgnoreNotFound_lenient(err) == "ok"

IgnoreNotFound(err) == IF err = "notfound" THEN "ok" ELSE "err"

\* r.Client.Get(ctx, req.NamespacedName, &myKind)
GetMyKind(k) ==
    /\ pc[k] = "idle"
    /\ UNCHANGED <<mykinds, deployments, index>>
    /\ \/ /\ k \in DOMAIN mykinds
          /\ pc'     = [pc EXCEPT ![k] = "list"]
          /\ loc'    = [loc EXCEPT ![k] = [NoLocals EXCEPT !.myKind = mykinds[k]]]
          /\ trace'  = [trace EXCEPT ![k] = <<Op("GetMyKind", "ok", k.name)>>]
          /\ events' = [events EXCEPT ![k] = << >>]
          /\ result' = [result EXCEPT ![k] = "running"]
          /\ UNCHANGED budget
       \/ /\ k \notin DOMAIN mykinds
          /\ trace'  = [trace EXCEPT ![k] = <<Op("GetMyKind", "notfound", k.name)>>]
          /\ events' = [events EXCEPT ![k] = << >>]
          /\ result' = [result EXCEPT ![k] = IgnoreNotFound("notfound")]
          /\ UNCHANGED <<pc, loc, budget>>
       \/ /\ Transient
          /\ trace'  = [trace EXCEPT ![k] = <<Op("GetMyKind", "error", k.name)>>]
          /\ events' = [events EXCEPT ![k] = << >>]
          /\ result' = [result EXCEPT ![k] = IgnoreNotFound("error")]
          /\ UNCHANGED <<pc, loc>>

\* The children cleanup still has to delete: the listed ones but the one
\* whose name is myKind.Spec.DeploymentName (the loop's "continue").
Stale_none(items, myKind) == {}

Stale_all(items, myKind) == items

Stale(items, myKind) == {c \in items : c.name # myKind.deploymentName}

\* cleanupOwnedResources: r.List from the index
ListDeployments(k) ==
    /\ pc[k] = "list"
    /\ UNCHANGED <<mykinds, deployments, index>>
    /\ \/ /\ UNCHANGED budget
          /\ LET items == List(k)
                 todo  == Stale(items, loc[k].myKind)
             IN  Goto(k, IF todo = {} THEN "get" ELSE "cleanup",
                      <<Op("List", "ok", k.name)>>, << >>,
                      [loc EXCEPT ![k].items = items, ![k].todo = todo])
       \/ /\ Transient
          /\ Return(k, "err", <<Op("List", "error", k.name)>>, << >>, loc)

\* Where the pass goes after a delete, todo being what the loop still has to
\* delete: round the loop again, or, cleanup having returned nil, on to the
\* Get of the child in the same pass.
afterDelete_return(todo) == IF todo = {} THEN "idle" ELSE "cleanup"

afterDelete(todo) == IF todo = {} THEN "get" ELSE "cleanup"

\* cleanupOwnedResources: one iteration of the loop that deletes.
DeleteDeployment(k) ==
    /\ pc[k] = "cleanup"
    /\ UNCHANGED <<mykinds, index>>
    /\ \E c \in loc[k].todo :
          \/ /\ c \in DOMAIN deployments
             /\ deployments' = Drop(deployments, c)
             /\ UNCHANGED budget
             /\ LET todo == loc[k].todo \ {c}
                IN  Goto(k, afterDelete(todo),
                         <<Op("Delete", "ok", c.name)>>,
                         <<Ev("Deleted", c.name)>>,
                         [StaleDeployment(loc, c) EXCEPT ![k].todo = todo])
          \/ /\ c \notin DOMAIN deployments
             /\ UNCHANGED <<deployments, budget>>
             /\ Return(k, "err", <<Op("Delete", "notfound", c.name)>>, << >>, loc)
          \/ /\ Transient
             /\ UNCHANGED deployments
             /\ Return(k, "err", <<Op("Delete", "error", c.name)>>, << >>, loc)

\* r.Client.Get(ctx, client.ObjectKey{...}, &deployment) and the comparison
\* of its replica count with the expected one.
GetDeployment(k) ==
    /\ pc[k] = "get"
    /\ UNCHANGED <<mykinds, deployments, index>>
    /\ LET myKind == loc[k].myKind
           c      == DeplKeyOf(k, myKind)
       IN  \/ /\ c \in DOMAIN deployments
              /\ UNCHANGED budget
              /\ Goto(k, IF deployments[c].replicas # expectedReplicas(myKind)
                         THEN "update" ELSE "status",
                      <<Op("GetDeployment", "ok", c.name)>>, << >>,
                      [loc EXCEPT ![k].deployment = deployments[c],
                                  ![k].deploymentStale = FALSE])
           \/ /\ c \notin DOMAIN deployments
              /\ UNCHANGED budget
              /\ Goto(k, "create",
                      <<Op("GetDeployment", "notfound", c.name)>>, << >>, loc)
           \/ /\ Transient
              /\ Return(k, "err", <<Op("GetDeployment", "error", c.name)>>, << >>, loc)

\* deployment = *buildDeployment(myKind); r.Client.Create(ctx, &deployment)
CreateDeployment(k) ==
    /\ pc[k] = "create"
    /\ UNCHANGED <<mykinds, index>>
    /\ LET d == buildDeployment(k, loc[k].myKind)
           c == [ns |-> d.namespace, name |-> d.name]
       IN  \/ /\ c \notin DOMAIN deployments
              /\ deployments' = Put(deployments, c, Stored(d))
              /\ UNCHANGED budget
              /\ Return(k, "ok", <<Op("Create", "ok", c.name)>>,
                        <<Ev("Created", c.name)>>, StaleDeployment(loc, c))
           \/ /\ c \in DOMAIN deployments
              /\ UNCHANGED <<deployments, budget>>
              /\ Return(k, "err", <<Op("Create", "exists", c.name)>>, << >>, loc)
           \/ /\ Transient
              /\ UNCHANGED deployments
              /\ Return(k, "err", <<Op("Create", "error", c.name)>>, << >>, loc)

\* Where the pass goes after a successful replica update: it returns.
AfterScale_sync(k, c, l) ==
    Goto(k, "status", <<Op("Update", "ok", c.name)>>, <<Ev("Scaled", c.name)>>,
         [l EXCEPT ![k].deployment.replicas = expectedReplicas(l[k].myKind),
                   ![k].deploymentStale = FALSE])

AfterScale_silent(k, c, l) ==
    Return(k, "ok", <<Op("Update", "ok", c.name)>>, << >>, l)

AfterScale(k, c, l) ==
    Return(k, "ok", <<Op("Update", "ok", c.name)>>, <<Ev("Scaled", c.name)>>, l)

\* The replica count the update writes.
scaledReplicas_keep(myKind, deployment) == deployment.replicas

scaledReplicas(myKind, deployment) == expectedReplicas(myKind)

\* deployment.Spec.Replicas = &expectedReplicas; r.Client.Update(ctx, &deployment)
UpdateDeployment(k) ==
    /\ pc[k] = "update"
    /\ UNCHANGED <<mykinds, index>>
    /\ LET myKind == loc[k].myKind
           c      == DeplKeyOf(k, myKind)
       IN  \/ /\ c \in DOMAIN deployments
              /\ ~loc[k].deploymentStale
              /\ deployments' = [deployments EXCEPT
                                    ![c].replicas = scaledReplicas(myKind, loc[k].deployment)]
              /\ UNCHANGED budget
              /\ AfterScale(k, c, StaleDeployment(loc, c))
           \/ /\ c \in DOMAIN deployments
              /\ loc[k].deploymentStale
              /\ UNCHANGED <<deployments, budget>>
              /\ Return(k, "err", <<Op("Update", "conflict", c.name)>>, << >>, loc)
           \/ /\ c \notin DOMAIN deployments
              /\ UNCHANGED <<deployments, budget>>
              /\ Return(k, "err", <<Op("Update", "notfound", c.name)>>, << >>, loc)
           \/ /\ Transient
              /\ UNCHANGED deployments
              /\ Return(k, "err", <<Op("Update", "error", c.name)>>, << >>, loc)

\* if r.Client.Status().Update(ctx, &myKind); err != nil { return ..., err }
\* The condition tests err, the variable the child Get assigned (getErr), and
\* not what the status update returned (updErr).
statusReturn(getErr, updErr) == IF getErr # "ok" THEN "err" ELSE "ok"

\* myKind.Status.ReadyReplicas = deployment.Status.ReadyReplicas
syncedReady_replicas(deployment) == deployment.replicas

syncedReady(deployment) == deployment.readyReplicas

\* What the store keeps of r.Client.Status().Update(ctx, &myKind): the status
\* of the object sent, the spec as stored.
StatusUpdate_defaulted(stored, myKind) ==
    [stored EXCEPT !.readyReplicas = myKind.readyReplicas,
                   !.replicas = expectedReplicas(myKind)]

StatusUpdate(stored, myKind) ==
    [stored EXCEPT !.readyReplicas = myKind.readyReplicas]

\* r.Client.Status().Update(ctx, &myKind): only the status is persisted.
UpdateStatus(k) ==
    /\ pc[k] = "status"
    /\ UNCHANGED <<deployments, index>>
    /\ \/ /\ k \in DOMAIN mykinds
          /\ ~loc[k].myKindStale
          /\ mykinds' = [mykinds EXCEPT
                            ![k] = StatusUpdate(mykinds[k],
                                      [loc[k].myKind EXCEPT !.readyReplicas =
                                          syncedReady(loc[k].deployment)])]
          /\ UNCHANGED budget
          /\ Return(k, statusReturn("ok", "ok"),
                    <<Op("UpdateStatus", "ok", k.name)>>, << >>, loc)
       \/ /\ k \in DOMAIN mykinds
          /\ loc[k].myKindStale
          /\ UNCHANGED <<mykinds, budget>>
          /\ Return(k, statusReturn("ok", "conflict"),
                    <<Op("UpdateStatus", "conflict", k.name)>>, << >>, loc)
       \/ /\ k \notin DOMAIN mykinds
          /\ UNCHANGED <<mykinds, budget>>
          /\ Return(k, statusReturn("ok", "notfound"),
                    <<Op("UpdateStatus", "notfound", k.name)>>, << >>, loc)
       \/ /\ Transient
          /\ UNCHANGED mykinds
          /\ Return(k, statusReturn("ok", "error"),
                    <<Op("UpdateStatus", "error", k.name)>>, << >>, loc)

\* One step of the pass for key k.
Reconcile(k) ==
    \/ GetMyKind(k)
    \/ ListDeployments(k)
    \/ DeleteDeployment(k)
    \/ GetDeployment(k)
    \/ CreateDeployment(k)
    \/ UpdateDeployment(k)
    \/ UpdateStatus(k)


\* ------------------------------------------------------- the environment
\* The actions below leave budget to the specification that uses them.

\* A user edits the spec of parent k (client Update of the MyKind).
UserUpdate(k) ==
    /\ k \in DOMAIN mykinds
    /\ \E s \in ValidSpecs :
          /\ s # [deploymentName |-> mykinds[k].deploymentName,
                  replicas       |-> mykinds[k].replicas]
          /\ mykinds' = [mykinds EXCEPT ![k].deploymentName = s.deploymentName,
                                        ![k].replicas = s.replicas]
    /\ loc' = StaleMyKind(loc, k)
    /\ UNCHANGED <<deployments, index, pc, trace, events, result>>

\* A user deletes parent k.
UserDelete(k) ==
    /\ k \in DOMAIN mykinds
    /\ mykinds' = Drop(mykinds, k)
    /\ loc' = StaleMyKind(loc, k)
    /\ UNCHANGED <<deployments, index, pc, trace, events, result>>

\* Somebody else sets the replica count of child c.
ExternalScale(c) ==
    /\ c \in DOMAIN deployments
    /\ \E n \in 0..MaxReplicas :
          /\ n # deployments[c].replicas
          /\ deployments' = [deployments EXCEPT ![c].replicas = n]
    /\ loc' = StaleDeployment(loc, c)
    /\ UNCHANGED <<mykinds, index, pc, trace, events, result>>

\* The workload controller reports another ready count on child c.
ReadyChange(c) ==
    /\ c \in DOMAIN deployments
    /\ \E n \in 0..MaxReady :
          /\ n # deployments[c].readyReplicas
          /\ deployments' = [deployments EXCEPT ![c].readyReplicas = n]
    /\ loc' = StaleDeployment(loc, c)
    /\ UNCHANGED <<mykinds, index, pc, trace, events, result>>

\* Somebody else deletes child c.
ExternalDelete(c) ==
    /\ c \in DOMAIN deployments
    /\ deployments' = Drop(deployments, c)
    /\ loc' = StaleDeployment(loc, c)
    /\ UNCHANGED <<mykinds, index, pc, trace, events, result>>

\* The watch layer observes child c: the index catches up with the store.
Observe(c) ==
    /\ index[c] # Observed(c)
    /\ index' = [index EXCEPT ![c] = Observed(c)]
    /\ UNCHANGED <<mykinds, deployments, pc, loc, trace, events, result>>

\* ------------------------------------------------------ what passes aim at
\* The children of the store that carry a back-reference to parent k.
Attributed(k) ==
    {c \in DOMAIN deployments : c.ns = k.ns /\ k.name \in indexFunc(deployments[c])}

\* The desired state of parent k is in place.
Converged(k) ==
    k \in DOMAIN mykinds =>
        LET c == DeplKeyOf(k, mykinds[k])
        IN  /\ Attributed(k) = {c}
            /\ deployments[c].replicas = expectedReplicas(mykinds[k])
            /\ mykinds[k].readyReplicas = deployments[c].readyReplicas

\* Parent k exists, its desired state is in place and the index lists
\* nothing else for it.
Settled(k) ==
    /\ k \in DOMAIN mykinds
    /\ Converged(k)
    /\ List(k) \subseteq {DeplKeyOf(k, mykinds[k])}

\* ------------------------------------------------------- history variables
\* prev[k] is the store as the last pass of k left it, kept for as long as
\* nobody else has written to the store since.
Snapshot(k) ==
    [valid |-> TRUE, mykinds |-> mykinds, deployments |-> deployments,
     index |-> index, settled |-> Settled(k), runs |-> 1]

PassStep(k) ==
    /\ Reconcile(k)
    /\ prev' = [j \in Keys |->
                  IF j = k
                  THEN IF pc'[k] = "idle"
                       THEN [Snapshot(k)' EXCEPT
                                !.runs = IF prev[k].valid THEN 2 ELSE 1]
                       ELSE prev[k]
                  ELSE IF store' # store THEN NoPrev ELSE prev[j]]

\* An external write: every record of a previous pass is out of date.
External(A) ==
    /\ A
    /\ prev' = [j \in Keys |-> NoPrev]

\* ------------------------------------------------------------ specification
\* The keys the dispatcher delivers.
Delivered == {P1}

\* Every external write spends one unit of budget, so that a run holds
\* finitely many of them; the watch layer is not bounded.
Spend == budget > 0 /\ budget' = budget - 1

Pass(k)  == PassStep(k) /\ UNCHANGED stage
Edit     == External(\E k \in Keys : UserUpdate(k)) /\ Spend /\ UNCHANGED stage
Remove   == External(\E k \in Keys : UserDelete(k)) /\ Spend /\ UNCHANGED stage
Drift    == External(\E c \in DeplKeys : ExternalScale(c)) /\ Spend /\ UNCHANGED stage
Ready    == External(\E c \in DeplKeys : ReadyChange(c)) /\ Spend /\ UNCHANGED stage
Lose     == External(\E c \in DeplKeys : ExternalDelete(c)) /\ Spend /\ UNCHANGED stage
Watch    == External(\E c \in DeplKeys : Observe(c)) /\ UNCHANGED <<budget, stage>>

Next ==
    \/ \E k \in Delivered : Pass(k)
    \/ Edit
    \/ Remove
    \/ Drift
    \/ Ready
    \/ Lose
    \/ Watch

Spec == Init /\ [][Next]_vars

\* Reconcile keeps being re-invoked for every delivered key, and the watch
\* layer eventually observes every child.
FairSpec ==
    /\ Init /\ [][Next]_vars
    /\ \A k \in Delivered : WF_vars(Pass(k))
    /\ WF_vars(Watch)

\* ------------------------------------------------------ reference scenario
\* The scenario of controllers/mykind_controller_test.go, "should allow
\* updating the replicas count after creating a MyKind resource": a parent
\* without replicas is created (stage 0), a pass succeeds (stage 1), the
\* parent is updated to 2 replicas between two passes (stage 2), the next
\* pass succeeds (stage 3) and so does the one after it (stage 4). No store
\* operation fails for a reason of its own; the workload controller reports
\* ready counts and the watch layer observes at any time.
ScnInit ==
    /\ mykinds = (P1 :> [deploymentName |-> "a", replicas |-> Nil,
                         readyReplicas |-> 0])
    /\ deployments = Empty
    /\ index   = [c \in DeplKeys |-> {}]
    /\ pc      = [k \in Keys |-> "idle"]
    /\ loc     = [k \in Keys |-> NoLocals]
    /\ trace   = [k \in Keys |-> << >>]
    /\ events  = [k \in Keys |-> << >>]
    /\ result  = [k \in Keys |-> "none"]
    /\ budget  = 0
    /\ prev    = [k \in Keys |-> NoPrev]
    /\ stage   = 0

ScnPass ==
    /\ PassStep(P1)
    /\ stage' = IF pc[P1] # "idle" /\ pc'[P1] = "idle" /\ result'[P1] = "ok"
                   /\ stage \in {0, 2, 3}
                THEN stage + 1 ELSE stage

\* myKind.Spec.Replicas = pointer.Int32Ptr(2); k8sClient.Update(ctx, myKind)
ScnEdit ==
    /\ stage = 1
    /\ pc[P1] = "idle"
    /\ External(UserUpdate(P1))
    /\ mykinds'[P1].deploymentName = mykinds[P1].deploymentName
    /\ mykinds'[P1].replicas = 2
    /\ stage' = 2
    /\ UNCHANGED budget

ScnReady == External(\E c \in DeplKeys : ReadyChange(c)) /\ UNCHANGED <<budget, stage>>

ScnNext ==
    \/ ScnPass
    \/ ScnEdit
    \/ ScnReady
    \/ Watch

ScenarioSpec == ScnInit /\ [][ScnNext]_vars

TypeOK ==
    /\ DOMAIN mykinds \subseteq Keys
    /\ DOMAIN deployments \subseteq DeplKeys
    /\ \A c \in DOMAIN deployments : deployments[c].replicas \in 0..MaxReplicas
    /\ budget \in 0..MaxEnv


\* ------------------------------------------------- reading a pass's record
Writes     == {"Delete", "Create", "Update", "UpdateStatus"}
Corrective == {"Create", "Update", "UpdateStatus"}

\* The operations of the record t whose kind is in S, in the order issued.
Issued(t, S) == SelectSeq(t, LAMBDA o : o.op \in S)

Last(t) == t[Len(t)]

\* The last operation of the record t is op with outcome res.
EndsWith(t, op, res) == t # << >> /\ Last(t).op = op /\ Last(t).res = res

\* This step is the one in which the pass in flight for k returns.
Returns(k) == pc[k] # "idle" /\ pc'[k] = "idle"

\* ------------------------------------------------------------------ claims

\* C2 as stated: whenever a pass of k ends and nobody else has written to
\* the store since the previous pass of k ended, the store is as that
\* previous pass left it and the pass issued no write at all.
C2_SecondPassIsNoOp ==
    [][\A k \in Keys :
         (Returns(k) /\ prev[k].valid) =>
            /\ mykinds' = prev[k].mykinds
            /\ deployments' = prev[k].deployments
            /\ index' = prev[k].index
            /\ Issued(trace'[k], Writes) = << >>]_vars

\* C2 amended: whenever a pass of k ends, nobody else has written to the
\* store since the previous pass of k ended and that pass left k settled
\* (desired child in place, status in sync, nothing stale listed), the store
\* is as the previous pass left it, and the only write the pass issued is
\* the status update (if it got that far).
C2_SettledPassChangesNothing ==
    [][\A k \in Keys :
         (Returns(k) /\ prev[k].valid /\ prev[k].settled) =>
            /\ mykinds' = prev[k].mykinds
            /\ deployments' = prev[k].deployments
            /\ index' = prev[k].index
            /\ Issued(trace'[k], Writes \ {"UpdateStatus"}) = << >>]_vars

\* Two passes in a row on a settled, untouched store, the second one ending
\* in a status update.
C2_Witness ==
    /\ pc[P1] = "idle"
    /\ prev[P1].valid /\ prev[P1].runs = 2 /\ prev[P1].settled
    /\ EndsWith(trace[P1], "UpdateStatus", "ok")
    /\ mykinds[P1].readyReplicas = 1

\* C3: a pass that returned success issued at most one of the corrective
\* writes create, child update, status update.
C3_AtMostOneCorrectiveWrite ==
    \A k \in Keys :
        (pc[k] = "idle" /\ result[k] = "ok") =>
            Len(Issued(trace[k], Corrective)) <= 1

\* A successful pass that deleted a stale child and then issued one
\* corrective write.
C3_Witness ==
    /\ pc[P1] = "idle" /\ result[P1] = "ok"
    /\ Len(Issued(trace[P1], {"Delete"})) = 1
    /\ Len(Issued(trace[P1], Corrective)) = 1

\* C7: a pass that found no parent for its key returned success, issued
\* nothing but that Get and recorded no event.
C7_MissingParentIsNoOp ==
    \A k \in Keys :
        (pc[k] = "idle" /\ trace[k] # << >> /\ trace[k][1].res = "notfound") =>
            /\ result[k] = "ok"
            /\ trace[k] = <<Op("GetMyKind", "notfound", k.name)>>
            /\ events[k] = << >>

\* A pass for p1 after p1 was deleted, with a child left behind.
C7_Witness ==
    /\ P1 \notin DOMAIN mykinds
    /\ DOMAIN deployments # {}
    /\ pc[P1] = "idle"
    /\ trace[P1] = <<Op("GetMyKind", "notfound", "p1")>>

\* C8: a pass whose status update failed returned an error.
C8_StatusFailureIsReturned ==
    \A k \in Keys :
        (pc[k] = "idle" /\ trace[k] # << >>
            /\ Last(trace[k]).op = "UpdateStatus" /\ Last(trace[k]).res # "ok") =>
            result[k] = "err"


\* C5 as stated: at no time do two children attributed to the same parent
\* exist.
C5_NeverTwoAttributed ==
    \A k \in Keys : Cardinality(Attributed(k)) <= 1

\* C5 amended: a pass creates its child only when every child attributed to
\* its parent that its cleanup had listed is gone; two attributed children
\* can exist at once only if the index had not shown the older one to the
\* pass that created the newer one.
C5_NoCreateBesideListedChild ==
    [][\A k \in Keys :
         (pc[k] = "create" /\ EndsWith(trace'[k], "Create", "ok")) =>
            \A c \in Attributed(k)' :
                c = DeplKeyOf(k, loc[k].myKind) \/ c \notin loc[k].items]_vars

\* A rename handled by one pass: the old child was listed and deleted, the
\* new one created, and only the new one is attributed to the parent.
C5_Witness ==
    /\ pc[P1] = "idle" /\ result[P1] = "ok"
    /\ Issued(trace[P1], Writes) = <<Op("Delete", "ok", "a"), Op("Create", "ok", "b")>>
    /\ Attributed(P1) = {[ns |-> "ns1", name |-> "b"]}

\* C6: a pass that read the child with a replica count other than the
\* expected one (spec.replicas as the pass read it, 1 when absent) and
\* returns success has, in its last operation, set the child's replica count
\* to the expected one.
C6_DriftIsCorrected ==
    [][\A k \in Keys :
         (Returns(k) /\ result'[k] = "ok"
             /\ loc[k].deployment # NoDeployment
             /\ loc[k].deployment.replicas # expectedReplicas(loc[k].myKind)) =>
            LET c == DeplKeyOf(k, loc[k].myKind)
            IN  /\ EndsWith(trace'[k], "Update", "ok")
                /\ c \in DOMAIN deployments'
                /\ deployments'[c].replicas = expectedReplicas(loc[k].myKind)]_vars

\* A pass has set the child to 1 replica, spec.replicas being absent, after
\* the parent was edited or the child was changed by somebody else.
C6_Witness ==
    /\ pc[P1] = "idle" /\ result[P1] = "ok"
    /\ EndsWith(trace[P1], "Update", "ok")
    /\ budget < MaxEnv
    /\ P1 \in DOMAIN mykinds /\ mykinds[P1].replicas = Nil
    /\ LET c == DeplKeyOf(P1, mykinds[P1])
       IN  c \in DOMAIN deployments /\ deployments[c].replicas = 1

\* C9: the child a pass creates is named spec.childName, is in the parent's
\* namespace, is the only child the step adds, and has spec.replicas
\* replicas when that is set (0 included) and 1 when it is absent.
C9_CreatedChild ==
    [][\A k \in Keys :
         (pc[k] = "create" /\ EndsWith(trace'[k], "Create", "ok")) =>
            LET myKind == loc[k].myKind
                c      == [ns |-> k.ns, name |-> myKind.deploymentName]
            IN  /\ DOMAIN deployments' = DOMAIN deployments \cup {c}
                /\ c \notin DOMAIN deployments
                /\ deployments'[c].replicas =
                      IF myKind.replicas = Nil THEN 1 ELSE myKind.replicas
                /\ \A x \in DOMAIN deployments : deployments'[x] = deployments[x]]_vars

\* A child just created with the explicit replica count 0.
C9_Witness ==
    /\ pc[P1] = "idle" /\ prev[P1].valid
    /\ EndsWith(trace[P1], "Create", "ok")
    /\ mykinds[P1].replicas = 0
    /\ deployments[DeplKeyOf(P1, mykinds[P1])].replicas = 0


\* C1: from some point on, every parent that exists has exactly one
\* attributed child, named spec.childName, with the expected replica count,
\* and its status.readyReplicas is that child's ready count.
C1_Convergence == <>[](\A k \in Keys : Converged(k))

\* Parent p1 is converged on a child with 2 replicas, 1 of them ready, and
\* nothing external can happen any more.
C1_Witness ==
    /\ budget = 0
    /\ pc[P1] = "idle"
    /\ P1 \in DOMAIN mykinds /\ Converged(P1)
    /\ mykinds[P1].replicas = 2 /\ mykinds[P1].readyReplicas = 1

\* Child a, attributed to parent k, exists while k wants another child.
RenamePending(k, a) ==
    /\ k \in DOMAIN mykinds
    /\ mykinds[k].deploymentName # a
    /\ [ns |-> k.ns, name |-> a] \in Attributed(k)

\* No child of another name is left in the namespace of parent k, and the
\* child k wants exists with a back-reference to k.
RenameDone(k) ==
    LET b == DeplKeyOf(k, mykinds[k])
    IN  /\ \A a \in ChildNames \ {b.name} :
              [ns |-> k.ns, name |-> a] \notin DOMAIN deployments
        /\ b \in DOMAIN deployments
        /\ deployments[b].owner = NewControllerRef(k)

\* C4: whenever a child attributed to parent k exists under a name that is
\* not spec.childName, eventually that child is gone and the child named by
\* the spec.childName of that time exists with a back-reference to k (or the
\* parent has been deleted).
C4_RenameLiveness ==
    \A k \in Delivered :
        (\E a \in DeplNames : RenamePending(k, a)) ~>
            (k \notin DOMAIN mykinds \/ RenameDone(k))

\* After a rename from a to b: a was deleted by a pass of p1, b exists with
\* its back-reference, and the index has observed both.
C4_Witness ==
    /\ P1 \in DOMAIN mykinds /\ mykinds[P1].deploymentName = "b"
    /\ RenameDone(P1)
    /\ \A c \in DeplKeys : index[c] = Observed(c)
    /\ pc[P1] = "idle" /\ EndsWith(trace[P1], "UpdateStatus", "ok")
    /\ budget = MaxEnv - 1

\* C10: in the reference scenario the first successful pass issues one
\* write, the creation of the child with 1 replica; the first successful pass
\* after the parent was set to 2 replicas issues one write, the update of the
\* child to 2 replicas, and leaves the parent alone; the successful pass
\* after that issues one write, the status update, which stores the ready
\* count it read from the child.
C10_ScenarioOrder ==
    [][LET a == [ns |-> "ns1", name |-> "a"]
           w == Issued(trace'[P1], Writes)
       IN  /\ (stage = 0 /\ stage' = 1) =>
                 /\ w = <<Op("Create", "ok", "a")>>
                 /\ deployments'[a].replicas = 1
                 /\ mykinds' = mykinds
           /\ (stage = 2 /\ stage' = 3) =>
                 /\ w = <<Op("Update", "ok", "a")>>
                 /\ deployments'[a].replicas = 2
                 /\ mykinds' = mykinds
           /\ (stage = 3 /\ stage' = 4) =>
                 /\ w = <<Op("UpdateStatus", "ok", "p1")>>
                 /\ mykinds'[P1].readyReplicas = loc[P1].deployment.readyReplicas
                 /\ deployments' = deployments]_vars

\* The scenario has run to its end with one replica reported ready.
C10_Witness ==
    /\ stage = 4
    /\ mykinds[P1].replicas = 2 /\ mykinds[P1].readyReplicas = 1
    /\ deployments[[ns |-> "ns1", name |-> "a"]].replicas = 2

\* This step is a step of a pass (no other step moves a pass or adds to its
\* record).
PassMoves == pc' # pc \/ trace' # trace

\* C11: no step of a pass adds or removes a parent or changes a parent's
\* childName or replicas; the only step of a pass that changes a parent at
\* all is a successful status update, and it changes that parent only.
C11_SpecUntouched ==
    [][PassMoves =>
         /\ DOMAIN mykinds' = DOMAIN mykinds
         /\ \A j \in DOMAIN mykinds :
               /\ mykinds'[j].deploymentName = mykinds[j].deploymentName
               /\ mykinds'[j].replicas = mykinds[j].replicas
         /\ \A j \in DOMAIN mykinds :
               mykinds'[j] # mykinds[j] =>
                   /\ pc[j] = "status"
                   /\ EndsWith(trace'[j], "UpdateStatus", "ok")]_vars

\* A status update has stored a new ready count on a parent whose replicas
\* are absent, and they still are.
C11_Witness ==
    /\ pc[P1] = "idle" /\ EndsWith(trace[P1], "UpdateStatus", "ok")
    /\ P1 \in DOMAIN mykinds
    /\ mykinds[P1].replicas = Nil /\ mykinds[P1].readyReplicas = 1
    /\ budget = MaxEnv - 1

\* The state the spec of parent k implies: the one child in k's namespace is
\* the child named spec.childName, it refers back to k, has spec.replicas
\* replicas (1 when absent), and the parent's status holds its ready count.
EndState(k) ==
    LET c == [ns |-> k.ns, name |-> mykinds[k].deploymentName]
    IN  /\ {d \in DOMAIN deployments : d.ns = k.ns} = {c}
        /\ deployments[c].owner =
              [apiVersion |-> GroupVersion, kind |-> "MyKind", name |-> k.name]
        /\ deployments[c].replicas =
              IF mykinds[k].replicas = Nil THEN 1 ELSE mykinds[k].replicas
        /\ mykinds[k].readyReplicas = deployments[c].readyReplicas

\* The pass of k that returns in this step ran from its first operation to
\* its last on a store nobody else wrote to, with the index up to date, and
\* found nothing to change.
QuietPass(k) ==
    /\ Returns(k) /\ prev[k].valid
    /\ EndsWith(trace'[k], "UpdateStatus", "ok")
    /\ mykinds' = prev[k].mykinds
    /\ deployments' = prev[k].deployments
    /\ index' = prev[k].index
    /\ \A c \in DeplKeys : index'[c] = Observed(c)'

\* C12: passes being delivered at any time and in any number, between and
\* during external changes, (a) whenever a pass finds nothing left to change,
\* the state is the one the current spec of its parent implies, whatever
\* passes and changes came before, and (b) every run ends up for good in the
\* state the current spec of every parent implies.
C12_EndStateFromSpecAlone ==
    /\ [][\A k \in Keys : QuietPass(k) => EndState(k)']_vars
    /\ <>[](\A k \in DOMAIN mykinds : EndState(k))

\* After a rename to b and a change to 2 replicas, delivered in whatever
\* order, a pass has found nothing left to change.
C12_Witness ==
    /\ budget = 0
    /\ pc[P1] = "idle" /\ prev[P1].valid /\ prev[P1].runs = 2
    /\ EndsWith(trace[P1], "UpdateStatus", "ok")
    /\ prev[P1].deployments = deployments /\ prev[P1].mykinds = mykinds
    /\ P1 \in DOMAIN mykinds
    /\ mykinds[P1].deploymentName = "b" /\ mykinds[P1].replicas = 2
    /\ EndState(P1)

\* --------------------------------------------------------------- two parents
\* Two parents in one namespace, each with its own pass in flight at most
\* (the dispatcher runs one pass per key at a time, passes of different keys
\* side by side). p1 wants child "a"; p2 wants "a" as well, or "b".
PairStart(b) ==
    /\ \E s1, s2 \in ValidSpecs :
          /\ s1.deploymentName = "a"
          /\ mykinds = (P1 :> [deploymentName |-> s1.deploymentName,
                               replicas       |-> s1.replicas,
                               readyReplicas  |-> 0])
                    @@ (P2 :> [deploymentName |-> s2.deploymentName,
                               replicas       |-> s2.replicas,
                               readyReplicas  |-> 0])
    /\ deployments = Empty
    /\ index   = [c \in DeplKeys |-> {}]
    /\ pc      = [k \in Keys |-> "idle"]
    /\ loc     = [k \in Keys |-> NoLocals]
    /\ trace   = [k \in Keys |-> << >>]
    /\ events  = [k \in Keys |-> << >>]
    /\ result  = [k \in Keys |-> "none"]
    /\ budget  = b
    /\ prev    = [k \in Keys |-> NoPrev]
    /\ stage   = 0

PairInit == PairStart(MaxPairEnv)

\* A user renames the child of a parent: spec.childName changes, replicas stay.
Rename ==
    /\ Edit
    /\ \A k \in DOMAIN mykinds : mykinds'[k].replicas = mykinds[k].replicas

PairNext ==
    \/ \E k \in Keys : Pass(k)
    \/ Rename
    \/ Watch

PairSpec == PairInit /\ [][PairNext]_vars

\* The children this step deletes or changes.
Touched == {c \in DOMAIN deployments :
               c \notin DOMAIN deployments' \/ deployments'[c] # deployments[c]}

\* This step is a step of the pass of key k.
StepOf(k) == pc'[k] # pc[k] \/ trace'[k] # trace[k]

\* C13 as stated (its safety half): with the passes of two parents
\* interleaved, no step of the pass of one parent deletes or changes a child
\* whose back-reference names the other parent.
C13_KeysDoNotInterfere ==
    [][\A k \in Keys :
         StepOf(k) => \A c \in Touched : deployments[c].owner.name = k.name]_vars

\* ------------------------------------------------------------ aborted passes
\* The pass of k stops where it is (process shutdown, cancellation): it
\* issues nothing more and its caller gets an error.
Cancel(k) ==
    /\ pc[k] # "idle"
    /\ Transient
    /\ Return(k, "err", << >>, << >>, loc)
    /\ UNCHANGED <<mykinds, deployments, index>>

\* After two renames, a to b to c, of which the index showed the first to no
\* pass before b was created: parent p1 wants child "c", and its children "a"
\* and "b" both exist, refer back to it and are in the index.
AbortInit ==
    /\ \E r \in {Nil} \cup 0..MaxReplicas :
          /\ mykinds = (P1 :> [deploymentName |-> "c", replicas |-> r,
                               readyReplicas |-> 0])
          /\ deployments =
                [c \in {[ns |-> "ns1", name |-> "a"], [ns |-> "ns1", name |-> "b"]} |->
                    Stored(buildDeployment(P1, [deploymentName |-> c.name,
                                                replicas |-> r, readyReplicas |-> 0]))]
    /\ index   = [c \in DeplKeys |-> Observed(c)]
    /\ pc      = [k \in Keys |-> "idle"]
    /\ loc     = [k \in Keys |-> NoLocals]
    /\ trace   = [k \in Keys |-> << >>]
    /\ events  = [k \in Keys |-> << >>]
    /\ result  = [k \in Keys |-> "none"]
    /\ budget  = MaxEnv
    /\ prev    = [k \in Keys |-> NoPrev]
    /\ stage   = 0

Abort == External(\E k \in Delivered : Cancel(k)) /\ UNCHANGED stage

AbortNext ==
    \/ \E k \in Delivered : Pass(k)
    \/ Abort
    \/ Watch

AbortSpec == AbortInit /\ [][AbortNext]_vars

\* Reconcile keeps being re-invoked for the key, and the watch layer
\* eventually observes every child.
AbortFairSpec ==
    /\ AbortInit /\ [][AbortNext]_vars
    /\ \A k \in Delivered : WF_vars(Pass(k))
    /\ WF_vars(Watch)

\* The last pass of k stopped before its end: an operation failed or the pass
\* was cancelled.
Aborted(k) == pc[k] = "idle" /\ result[k] = "err"

\* C14: whenever a pass has stopped after a prefix of its operations,
\* whatever it had deleted, created or updated by then, the passes that
\* follow bring the parent to its desired state for good.
C14_AbortedPassIsRepaired ==
    \A k \in Delivered : [](Aborted(k) => <>[]Converged(k))

\* A pass stopped in the middle of cleanup: one stale child deleted, the
\* delete of the other failed, and that child still exists.
C14_Witness ==
    /\ Aborted(P1)
    /\ Len(Issued(trace[P1], {"Delete"})) = 2
    /\ trace[P1][3].res = "ok" /\ trace[P1][4].res = "error"
    /\ Cardinality(DOMAIN deployments) = 1
    /\ ~Converged(P1)

\* This step is the one in which cleanupOwnedResources returns nil to the
\* pass of k.
CleanupDone(k) == pc[k] \in {"list", "cleanup"} /\ pc'[k] \notin {"idle", "cleanup"}

\* C15: when cleanup returns success, the pass has issued one successful
\* delete for every child the index listed under a name other than
\* spec.childName and none of them is left in the store, it has issued no
\* delete for the child named spec.childName, and it has issued no delete at
\* all when no listed child had another name.
C15_CleanupDeletesStaleOnly ==
    [][\A k \in Keys :
         CleanupDone(k) =>
            LET myKind  == loc[k].myKind
                listed  == loc'[k].items
                deleted == {[ns |-> k.ns, name |-> o.obj] :
                               o \in {trace'[k][i] : i \in 1..Len(trace'[k])}
                                        \cap [op : {"Delete"}, res : {"ok"}, obj : ChildNames]}
            IN  /\ deleted = {c \in listed : c.name # myKind.deploymentName}
                /\ deleted \cap DOMAIN deployments' = {}
                /\ Len(Issued(trace'[k], {"Delete"})) = Cardinality(deleted)]_vars

\* The index listed both "a" and "b" for p1, which wants "b": cleanup deleted
\* "a" and left "b" alone.
C15_Witness ==
    /\ pc[P1] = "get"
    /\ Cardinality(loc[P1].items) = 2
    /\ loc[P1].myKind.deploymentName = "b"
    /\ Issued(trace[P1], {"Delete"}) = <<Op("Delete", "ok", "a")>>
    /\ DOMAIN deployments = {[ns |-> "ns1", name |-> "b"]}

\* The record t holds a successful op.
Did(t, op) == \E i \in 1..Len(t) : t[i].op = op /\ t[i].res = "ok"

\* No operation of the record t failed (a child not found by Get is no
\* failure: the pass goes on to create it).
NoFailure(t) ==
    \A i \in 1..Len(t) :
        t[i].res = "ok" \/ (t[i].op = "GetDeployment" /\ t[i].res = "notfound")

\* C16 as stated: no pass both deletes a stale child and creates a child.
C16_DeleteAndCreateInDifferentPasses ==
    \A k \in Keys : ~(Did(trace[k], "Delete") /\ Did(trace[k], "Create"))

\* C16 amended: a pass that deleted a stale child and in which no operation
\* failed went on, after its last delete, to fetch the child named
\* spec.childName, and when that child was not found it created it in the
\* same pass, as its last operation.
C16_DeleteThenCreateInOnePass ==
    \A k \in Keys :
        (pc[k] = "idle" /\ Did(trace[k], "Delete") /\ NoFailure(trace[k])) =>
            \E i \in 1..Len(trace[k]) :
                /\ trace[k][i].op = "GetDeployment"
                /\ \A j \in 1..Len(trace[k]) : trace[k][j].op = "Delete" => j < i
                /\ trace[k][i].res = "notfound" =>
                      /\ EndsWith(trace[k], "Create", "ok")
                      /\ Len(trace[k]) = i + 1

\* One pass after a rename from a to b with 2 replicas: it deleted a, did
\* not find b and created it.
C16_Witness ==
    /\ pc[P1] = "idle"
    /\ trace[P1] = <<Op("GetMyKind", "ok", "p1"), Op("List", "ok", "p1"),
                     Op("Delete", "ok", "a"), Op("GetDeployment", "notfound", "b"),
                     Op("Create", "ok", "b")>>
    /\ P1 \in DOMAIN mykinds
    /\ [ns |-> "ns1", name |-> "b"] \in DOMAIN deployments
    /\ mykinds[P1].replicas = 2
    /\ deployments[[ns |-> "ns1", name |-> "b"]].replicas = 2

\* ------------------------------------------------- children of other owners
\* Controller references a Deployment can carry besides none at all: of
\* another kind, of another version of the API group, of this parent, of a
\* parent of another name.
OtherKind    == [apiVersion |-> "apps/v1", kind |-> "ReplicaSet", name |-> "p1"]
OtherVersion == [apiVersion |-> "mygroup.k8s.io/v1alpha1", kind |-> "MyKind",
                 name |-> "p1"]
Owners == {NoOwner, OtherKind, OtherVersion, NewControllerRef(P1), NewControllerRef(P2)}

\* Somebody else creates child c, in any namespace, with controller
\* reference o (a parent named p1 may exist in the other namespace too).
ExternalCreate(c, o) ==
    /\ c \notin DOMAIN deployments
    /\ deployments' = Put(deployments, c,
                          [replicas |-> 1, readyReplicas |-> 0, owner |-> o,
                           selector |-> c.name])
    /\ loc' = StaleDeployment(loc, c)
    /\ UNCHANGED <<mykinds, index, pc, trace, events, result>>

\* Somebody else sets or removes the controller reference of child c.
ExternalOwner(c, o) ==
    /\ c \in DOMAIN deployments
    /\ o # deployments[c].owner
    /\ deployments' = [deployments EXCEPT ![c].owner = o]
    /\ loc' = StaleDeployment(loc, c)
    /\ UNCHANGED <<mykinds, index, pc, trace, events, result>>

Intrude ==
    /\ External(\E c \in DeplKeys, o \in Owners : ExternalCreate(c, o))
    /\ Spend /\ UNCHANGED stage

Reown ==
    /\ External(\E c \in DeplKeys, o \in Owners : ExternalOwner(c, o))
    /\ Spend /\ UNCHANGED stage

ForeignNext ==
    \/ \E k \in Delivered : Pass(k)
    \/ Rename
    \/ Intrude
    \/ Reown
    \/ Watch

\* Replica counts play no part here: parent p1 starts without one.
ForeignInit == Init /\ mykinds[P1].replicas = Nil

ForeignSpec == ForeignInit /\ [][ForeignNext]_vars

\* The children this step removes from the store.
Deleted == DOMAIN deployments \ DOMAIN deployments'

\* Child c carries a controller reference of the parent type (MyKind, in its
\* API group and version) that names parent k.
RefersTo(c, k) ==
    deployments[c].owner =
        [apiVersion |-> "mygroup.k8s.io/v1beta1", kind |-> "MyKind", name |-> k.name]

\* C17 as stated: every child a step of the pass of k deletes is in k's
\* namespace and carries a controller reference of the parent type that
\* names k.
C17_DeletesOnlyOwnChildren ==
    [][\A k \in Keys :
         StepOf(k) => \A c \in Deleted : c.ns = k.ns /\ RefersTo(c, k)]_vars

\* C17 amended: every child a step of the pass of k deletes is in k's
\* namespace, was listed for k by the index and is not named spec.childName;
\* and it carries a controller reference of the parent type that names k,
\* unless the index is behind the store for that child or has dropped it
\* since the pass listed it.
C17_DeletesOnlyListedChildren ==
    [][\A k \in Keys :
         StepOf(k) =>
            \A c \in Deleted :
                /\ c.ns = k.ns
                /\ c \in loc[k].items
                /\ c.name # loc[k].myKind.deploymentName
                /\ \/ RefersTo(c, k)
                   \/ index[c] # Observed(c)
                   \/ k.name \notin index[c]]_vars

\* A pass of p1 has deleted p1's stale child "a" with the index up to date,
\* and has left alone a child of p1's namespace whose controller is of
\* another kind, though of p1's name.
C17_Witness ==
    /\ pc[P1] = "idle"
    /\ Issued(trace[P1], {"Delete"}) = <<Op("Delete", "ok", "a")>>
    /\ [ns |-> "ns1", name |-> "a"] \notin DOMAIN deployments
    /\ [ns |-> "ns1", name |-> "c"] \in DOMAIN deployments
    /\ deployments[[ns |-> "ns1", name |-> "c"]].owner = OtherKind
    /\ \A c \in DeplKeys : index[c] = Observed(c)

\* C18: a step of the pass of k that changes a parent changes the status of
\* k only, in a pass that got the child named spec.childName, read on it the
\* expected replica count (spec.replicas, 1 when absent), and neither created
\* nor scaled nor saw an operation fail before; the readyReplicas it stores
\* is the ready count the pass read on that child.
C18_StatusOnlyFromMatchingChild ==
    [][\A k \in Keys :
         (StepOf(k) /\ mykinds' # mykinds) =>
            LET myKind == loc[k].myKind
                t      == trace[k]
            IN  /\ k \in DOMAIN mykinds
                /\ \A j \in DOMAIN mykinds \ {k} : mykinds'[j] = mykinds[j]
                /\ Last(t) = Op("GetDeployment", "ok", myKind.deploymentName)
                /\ loc[k].deployment.replicas =
                      IF myKind.replicas = Nil THEN 1 ELSE myKind.replicas
                /\ mykinds'[k].readyReplicas = loc[k].deployment.readyReplicas
                /\ ~Did(t, "Create") /\ ~Did(t, "Update")
                /\ \A i \in 1..Len(t) : t[i].res = "ok"]_vars

\* A pass has read child "a" with 2 replicas, as the parent asks, and 1 of
\* them ready, and has stored that 1 in the parent's status.
C18_Witness ==
    /\ pc[P1] = "idle"
    /\ trace[P1] = <<Op("GetMyKind", "ok", "p1"), Op("List", "ok", "p1"),
                     Op("GetDeployment", "ok", "a"), Op("UpdateStatus", "ok", "p1")>>
    /\ P1 \in DOMAIN mykinds
    /\ [ns |-> "ns1", name |-> "a"] \in DOMAIN deployments
    /\ mykinds[P1].replicas = 2 /\ mykinds[P1].readyReplicas = 1
    /\ deployments[[ns |-> "ns1", name |-> "a"]].replicas = 2
    /\ deployments[[ns |-> "ns1", name |-> "a"]].readyReplicas = 1
    /\ prev[P1].valid

\* The operation o of a pass failed: a parent Get other than not-found, a
\* List, a Delete, a child Get other than not-found, a Create or a child
\* Update whose outcome is not success.
Failed(o) ==
    /\ o.res # "ok"
    /\ o.op \in {"GetMyKind", "List", "Delete", "GetDeployment", "Create", "Update"}
    /\ ~(o.op \in {"GetMyKind", "GetDeployment"} /\ o.res = "notfound")

\* C19: an operation of a pass that failed is the last operation of that
\* pass (nothing is issued after it, the failed operation included), and the
\* pass is over and has returned an error.
C19_FailFast ==
    \A k \in Keys :
        \A i \in 1..Len(trace[k]) :
            Failed(trace[k][i]) =>
                /\ i = Len(trace[k])
                /\ pc[k] = "idle"
                /\ result[k] = "err"

\* After a rename the delete of the stale child "a" failed: the pass ended
\* there with an error, "a" is still in the store and "b" was not created.
C19_Witness ==
    /\ pc[P1] = "idle" /\ result[P1] = "err"
    /\ trace[P1] = <<Op("GetMyKind", "ok", "p1"), Op("List", "ok", "p1"),
                     Op("Delete", "error", "a")>>
    /\ DOMAIN deployments = {[ns |-> "ns1", name |-> "a"]}

\* ------------------------------------------------- the pass after a conflict
\* Runs as in Spec, with stage following the passes of a key: 1 when the
\* pass that just ended got a conflict on its child update, 2 when the pass
\* after that one has ended and nobody wrote to a parent or a child from
\* the end of the one to the end of the other, 0 otherwise.
CfPass(k) ==
    /\ PassStep(k)
    /\ stage' = IF pc'[k] # "idle" THEN stage
                ELSE IF EndsWith(trace'[k], "Update", "conflict") THEN 1
                ELSE IF stage = 1 /\ prev[k].valid THEN 2
                ELSE 0

\* The watch layer observes a child; this is no write to the store.
CfWatch ==
    /\ \E c \in DeplKeys : Observe(c)
    /\ UNCHANGED <<budget, stage, prev>>

ConflictNext ==
    \/ \E k \in Delivered : CfPass(k)
    \/ Edit
    \/ Remove
    \/ Drift
    \/ Ready
    \/ Lose
    \/ CfWatch

ConflictSpec == Init /\ [][ConflictNext]_vars

\* C20: (a) a child update that gets a conflict leaves every child as it
\* was and ends the pass with an error; (b) the next pass of that key, when
\* nobody writes to a parent or a child from the end of the one pass to the
\* end of the other, gets no conflict, and if none of its operations fails
\* (a transient failure, or the delete of a stale child the index still
\* lists though it is gone) any update it issues succeeds and it leaves the
\* child named spec.childName with the expected replica count.
C20_ConflictThenFreshRead ==
    [][\A k \in Delivered :
         /\ (pc[k] = "update" /\ EndsWith(trace'[k], "Update", "conflict")) =>
               /\ deployments' = deployments
               /\ pc'[k] = "idle" /\ result'[k] = "err"
         /\ (stage = 1 /\ prev[k].valid /\ Returns(k)) =>
               LET t == trace'[k]
               IN  /\ \A i \in 1..Len(t) : t[i].res # "conflict"
                   /\ NoFailure(t) =>
                         /\ \A i \in 1..Len(t) : t[i].op = "Update" => t[i].res = "ok"
                         /\ result'[k] = "ok"
                         /\ k \in DOMAIN mykinds'
                         /\ LET c == [ns |-> k.ns, name |-> mykinds'[k].deploymentName]
                            IN  /\ c \in DOMAIN deployments'
                                /\ deployments'[c].replicas =
                                      IF mykinds'[k].replicas = Nil THEN 1
                                      ELSE mykinds'[k].replicas]_vars

\* The pass after a conflict has re-read the child and set it to the 2
\* replicas the parent asks for.
C20_Witness ==
    /\ stage = 2
    /\ pc[P1] = "idle" /\ result[P1] = "ok"
    /\ trace[P1] = <<Op("GetMyKind", "ok", "p1"), Op("List", "ok", "p1"),
                     Op("GetDeployment", "ok", "a"), Op("Update", "ok", "a")>>
    /\ P1 \in DOMAIN mykinds /\ mykinds[P1].replicas = 2
    /\ [ns |-> "ns1", name |-> "a"] \in DOMAIN deployments
    /\ deployments[[ns |-> "ns1", name |-> "a"]].replicas = 2

\* The event a successful delete, create or replica update is to be
\* followed by.
EventOf(o) ==
    [reason |-> IF o.op = "Delete" THEN "Deleted"
                ELSE IF o.op = "Create" THEN "Created" ELSE "Scaled",
     obj    |-> o.obj]

\* The deletes, creates and replica updates of the record t that succeeded.
Mutations(t) ==
    SelectSeq(t, LAMBDA o : o.op \in {"Delete", "Create", "Update"} /\ o.res = "ok")

\* C21: at every point of a pass the events recorded on its parent are, in
\* order, one "Deleted", "Created" or "Scaled" event for each delete, create
\* or replica update of the pass that succeeded, naming the child, and
\* nothing else: none for a write that failed or was not issued.
C21_EventsMatchMutations ==
    \A k \in Keys :
        LET w == Mutations(trace[k])
        IN  events[k] = [i \in 1..Len(w) |-> EventOf(w[i])]

\* A pass deleted "a" and then failed to create "b": one event, "Deleted",
\* and none for the create.
C21_Witness ==
    /\ pc[P1] = "idle" /\ result[P1] = "err"
    /\ EndsWith(trace[P1], "Create", "error")
    /\ events[P1] = <<Ev("Deleted", "a")>>

\* C22: (a) the child a pass creates is a function of the parent's
\* namespace, name, spec.childName and spec.replicas as the pass read them,
\* the same whenever it is built: its controller reference names the parent,
\* its replicas are spec.replicas (1 when absent) and its label selector is
\* derived from spec.childName alone; (b) children built for different
\* spec.childName never have the same label selector.
C22_BuilderIsAFunctionOfTheParent ==
    /\ [][\A k \in Keys :
            (pc[k] = "create" /\ EndsWith(trace'[k], "Create", "ok")) =>
               LET myKind == loc[k].myKind
                   c      == [ns |-> k.ns, name |-> myKind.deploymentName]
               IN  deployments'[c] =
                      [replicas      |-> IF myKind.replicas = Nil THEN 1
                                         ELSE myKind.replicas,
                       readyReplicas |-> 0,
                       owner         |-> [apiVersion |-> GroupVersion,
                                          kind |-> "MyKind", name |-> k.name],
                       selector      |-> myKind.deploymentName]]_vars
    /\ [](\A c1, c2 \in DOMAIN deployments :
             c1.name # c2.name =>
                deployments[c1].selector # deployments[c2].selector)

\* Children "a" and "b", built for the parent before and after a rename
\* that the index had not caught up with, exist side by side, and the
\* parent has a ready count in its status.
C22_Witness ==
    /\ {[ns |-> "ns1", name |-> "a"], [ns |-> "ns1", name |-> "b"]}
          \subseteq DOMAIN deployments
    /\ pc[P1] = "idle" /\ EndsWith(trace[P1], "Create", "ok")
    /\ budget = 0

\* ---------------------------------- the earlier revision of the controller
\* It has no cleanup, no index, no replica update, no status and no events:
\* a pass reads the parent, reads the child of the parent's own name and
\* creates it when it is not found.

\* client.ObjectKey{Namespace: myKind.Namespace, Name: myKind.Name}
DeplKeyOf0(k) == [ns |-> k.ns, name |-> k.name]

buildDeployment0_spec(k, myKind) ==
    [name      |-> k.name,
     namespace |-> k.ns,
     owner     |-> NewControllerRef(k),
     replicas  |-> myKind.replicas,
     selector  |-> k.name]

\* one := int32(1); Name: myKind.Name; Replicas: &one
buildDeployment0(k, myKind) ==
    [name      |-> k.name,
     namespace |-> k.ns,
     owner     |-> NewControllerRef(k),
     replicas  |-> 1,
     selector  |-> k.name]

\* r.Client.Get(ctx, req.NamespacedName, &myKind)
GetMyKind0(k) ==
    /\ pc[k] = "idle"
    /\ UNCHANGED <<mykinds, deployments, index, events>>
    /\ \/ /\ k \in DOMAIN mykinds
          /\ pc'     = [pc EXCEPT ![k] = "get"]
          /\ loc'    = [loc EXCEPT ![k] = [NoLocals EXCEPT !.myKind = mykinds[k]]]
          /\ trace'  = [trace EXCEPT ![k] = <<Op("GetMyKind", "ok", k.name)>>]
          /\ result' = [result EXCEPT ![k] = "running"]
          /\ UNCHANGED budget
       \/ /\ k \notin DOMAIN mykinds
          /\ trace'  = [trace EXCEPT ![k] = <<Op("GetMyKind", "notfound", k.name)>>]
          /\ result' = [result EXCEPT ![k] = IgnoreNotFound("notfound")]
          /\ UNCHANGED <<pc, loc, budget>>
       \/ /\ Transient
          /\ trace'  = [trace EXCEPT ![k] = <<Op("GetMyKind", "error", k.name)>>]
          /\ result' = [result EXCEPT ![k] = IgnoreNotFound("error")]
          /\ UNCHANGED <<pc, loc>>

\* r.Client.Get(ctx, client.ObjectKey{...}, &deployment): a child that
\* exists ends the pass, "finished processing".
GetDeployment0(k) ==
    /\ pc[k] = "get"
    /\ UNCHANGED <<mykinds, deployments, index>>
    /\ LET c == DeplKeyOf0(k)
       IN  \/ /\ c \in DOMAIN deployments
              /\ UNCHANGED budget
              /\ Return(k, "ok", <<Op("GetDeployment", "ok", c.name)>>, << >>, loc)
           \/ /\ c \notin DOMAIN deployments
              /\ UNCHANGED budget
              /\ Goto(k, "create",
                      <<Op("GetDeployment", "notfound", c.name)>>, << >>, loc)
           \/ /\ Transient
              /\ Return(k, "err", <<Op("GetDeployment", "error", c.name)>>, << >>, loc)

\* deployment = *buildDeployment(myKind); r.Client.Create(ctx, &deployment)
CreateDeployment0(k) ==
    /\ pc[k] = "create"
    /\ UNCHANGED <<mykinds, index>>
    /\ LET d == buildDeployment0(k, loc[k].myKind)
           c == [ns |-> d.namespace, name |-> d.name]
       IN  \/ /\ c \notin DOMAIN deployments
              /\ deployments' = Put(deployments, c, Stored(d))
              /\ UNCHANGED budget
              /\ Return(k, "ok", <<Op("Create", "ok", c.name)>>, << >>, loc)
           \/ /\ c \in DOMAIN deployments
              /\ UNCHANGED <<deployments, budget>>
              /\ Return(k, "err", <<Op("Create", "exists", c.name)>>, << >>, loc)
           \/ /\ Transient
              /\ UNCHANGED deployments
              /\ Return(k, "err", <<Op("Create", "error", c.name)>>, << >>, loc)

Reconcile0(k) ==
    \/ GetMyKind0(k)
    \/ GetDeployment0(k)
    \/ CreateDeployment0(k)

\* Both parents exist, with any valid spec; no child exists.
EarlyInit ==
    /\ \E r1, r2 \in {Nil} \cup 0..MaxReplicas :
          mykinds = (P1 :> [deploymentName |-> "a", replicas |-> r1,
                            readyReplicas |-> 0])
                 @@ (P2 :> [deploymentName |-> "a", replicas |-> r2,
                            readyReplicas |-> 0])
    /\ deployments = Empty
    /\ index   = [c \in DeplKeys |-> {}]
    /\ pc      = [k \in Keys |-> "idle"]
    /\ loc     = [k \in Keys |-> NoLocals]
    /\ trace   = [k \in Keys |-> << >>]
    /\ events  = [k \in Keys |-> << >>]
    /\ result  = [k \in Keys |-> "none"]
    /\ budget  = MaxEnv
    /\ prev    = [k \in Keys |-> NoPrev]
    /\ stage   = 0

EarlyPass(k) == Reconcile0(k) /\ UNCHANGED <<prev, stage>>

EarlyIntrude ==
    /\ External(\E k \in Keys, o \in {NoOwner} : ExternalCreate(DeplKeyOf0(k), o))
    /\ Spend /\ UNCHANGED stage

EarlyDrift ==
    /\ External(\E k \in Keys : ExternalScale(DeplKeyOf0(k)))
    /\ Spend /\ UNCHANGED stage

EarlyLose ==
    /\ External(\E k \in Keys : ExternalDelete(DeplKeyOf0(k)))
    /\ Spend /\ UNCHANGED stage

EarlyNext ==
    \/ \E k \in Keys : EarlyPass(k)
    \/ Remove
    \/ EarlyIntrude
    \/ EarlyDrift
    \/ EarlyLose

EarlySpec == EarlyInit /\ [][EarlyNext]_vars

\* C23: in the earlier revision, (a) a pass that finds no child of the
\* parent's name goes on to create it, and a successful create adds exactly
\* the child with the parent's name and namespace, with exactly one replica
\* whatever the parent's spec says, and changes nothing else; (b) a step of
\* a pass taken while a child of that name exists writes nothing, and a pass
\* that finds the child ends at once without error.
C23_EarlierRevisionCreatesOnce ==
    [][\A k \in Keys :
         StepOf(k) =>
            LET c == [ns |-> k.ns, name |-> k.name]
            IN  /\ mykinds' = mykinds
                /\ (pc[k] = "get" /\ c \notin DOMAIN deployments
                       /\ EndsWith(trace'[k], "GetDeployment", "notfound"))
                      => pc'[k] = "create"
                /\ (pc[k] = "create" /\ EndsWith(trace'[k], "Create", "ok"))
                      => /\ c \notin DOMAIN deployments
                         /\ DOMAIN deployments' = DOMAIN deployments \cup {c}
                         /\ deployments'[c].replicas = 1
                         /\ \A e \in DOMAIN deployments :
                               deployments'[e] = deployments[e]
                /\ c \in DOMAIN deployments => deployments' = deployments
                /\ (pc[k] = "get" /\ c \in DOMAIN deployments
                       /\ ~EndsWith(trace'[k], "GetDeployment", "error"))
                      => /\ pc'[k] = "idle" /\ result'[k] = "ok"
                         /\ Issued(trace'[k], Writes) = << >>
                /\ ~EndsWith(trace'[k], "Create", "ok")
                      => deployments' = deployments]_vars

\* The pass of p1, whose spec asks for two replicas, has created child "p1"
\* with one replica; the pass of p2 found a child "p2" that somebody else had
\* created and scaled to two replicas, and ended without writing.
C23_Witness ==
    /\ P1 \in DOMAIN mykinds /\ mykinds[P1].replicas = 2
    /\ pc[P1] = "idle" /\ EndsWith(trace[P1], "Create", "ok")
    /\ [ns |-> "ns1", name |-> "p1"] \in DOMAIN deployments
    /\ deployments[[ns |-> "ns1", name |-> "p1"]].replicas = 1
    /\ pc[P2] = "idle" /\ result[P2] = "ok"
    /\ EndsWith(trace[P2], "GetDeployment", "ok")
    /\ [ns |-> "ns1", name |-> "p2"] \in DOMAIN deployments
    /\ deployments[[ns |-> "ns1", name |-> "p2"]].replicas = 2


\* C24 as stated: a step of the pass of k that sets the replica count of a
\* child does so only on a child whose controller reference names k.
C24_RescalesOnlyOwnChild ==
    [][\A k \in Keys :
         (pc[k] = "update" /\ EndsWith(trace'[k], "Update", "ok")) =>
            RefersTo(DeplKeyOf(k, loc[k].myKind), k)]_vars


\* C25: (a) the child a successful create of the pass of k stores is in k's
\* namespace and the index function maps it to k's name and nothing else;
\* (b) when the pass of k lists its children, every child in the store that
\* the index has observed is among the items returned, and is marked for
\* deletion when its name is not the one the parent asks for. (Under Spec
\* every child in the store was created by a pass of the delivered key.)
C25_CreatedChildrenAreIndexed ==
    [][\A k \in Delivered :
         /\ (pc[k] = "create" /\ EndsWith(trace'[k], "Create", "ok")) =>
               \E c \in DOMAIN deployments' \ DOMAIN deployments :
                  /\ c.ns = k.ns
                  /\ indexFunc(deployments'[c]) = {k.name}
         /\ (pc[k] = "list" /\ EndsWith(trace'[k], "List", "ok")) =>
               \A c \in DOMAIN deployments :
                  index[c] = Observed(c) =>
                     /\ c \in loc'[k].items
                     /\ c.name # loc[k].myKind.deploymentName
                           => c \in loc'[k].todo]_vars

\* After a rename from "a" to "b", the pass of p1 has listed its children:
\* child "a", which an earlier pass created and the index has observed, was
\* returned and is about to be deleted.
C25_Witness ==
    /\ pc[P1] = "cleanup"
    /\ loc[P1].myKind.deploymentName = "b"
    /\ [ns |-> "ns1", name |-> "a"] \in loc[P1].todo
    /\ [ns |-> "ns1", name |-> "a"] \in DOMAIN deployments
    /\ index[[ns |-> "ns1", name |-> "a"]] = {"p1"}


\* ------------------------------------------ fixed specs, nobody else writes
\* Two parents with any valid specs, no child, and no budget: no parent is
\* edited or deleted, no child is written to by anybody but the passes, and
\* no store operation fails for a reason of its own.
FixedInit == PairStart(0)

FixedNext ==
    \/ \E k \in Keys : Pass(k)
    \/ Watch

\* Reconcile keeps being re-invoked for both keys (watch events and the
\* periodic resync), and the watch layer eventually observes every child.
FixedFairSpec ==
    /\ FixedInit /\ [][FixedNext]_vars
    /\ \A k \in Keys : WF_vars(Pass(k))
    /\ WF_vars(Watch)

\* This step is a successful update of a child's replica count.
Rescales == \E k \in Keys : pc[k] = "update" /\ EndsWith(trace'[k], "Update", "ok")

\* C26 as stated: with the parents' specs fixed and no external edit of a
\* child, only finitely many replica updates are issued: from some point on
\* no step is a replica update.
C26_FinitelyManyRescales == <>[][~Rescales]_vars

====
